---- MODULE Spec2Model ----
(***************************************************************************)
(* State-machine model of scripts/load-test.py: the three request issuers  *)
(* (submit_score, get_top_players, get_user_rank), the statistics reporter *)
(* (print_statistics), the bounded-duration driver (run_load_test) and the *)
(* continuous driver (run_continuous_simulation).                          *)
(*                                                                         *)
(* Time is a global clock `now` counted in ticks of 1/TicksPerSecond s,    *)
(* the granularity of the sleep bounds.  The HTTP endpoint is the          *)
(* environment: for each request it picks one outcome of                   *)
(* endpoint.outcomes after a delay of 0..endpoint.latency ticks.           *)
(* Strings are sequences of string parts (the f-string's literal pieces    *)
(* and its formatted values); the emoji prefixes are left out.             *)
(***************************************************************************)
EXTENDS Integers, Sequences, FiniteSets, TLC

\* ------------------------------------------------------------------ bounds
\* run_load_test(max_workers=...): size of the pool and of a batch.
MaxWorkers == 2
\* run_load_test(duration_seconds=...), in ticks.
Duration == 2
\* Longest delay, in ticks, between sending a request and its outcome
\* (stands for the per-request timeout=5).
MaxLatency == 1
\* Iterations of the continuous loop that are explored.
MaxIter == 2
\* duration_seconds of the long run against a healthy endpoint, in ticks.
LongDuration == 5

\* ------------------------------------------------------- program constants
\* `if request_count % 10 == 0`
PrintEvery == 10
\* `response.status_code == 200`
StatusOK == 200
\* `elapsed = (time.time() - start_time) * 1000`
MsPerSecond == 1000
\* Clock ticks per second: 0.5 s, the lower sleep bound, is one tick.
TicksPerSecond == 2

Ops == {"submit", "top", "rank"}
\* dict order of request_times
OpOrder == <<"submit", "top", "rank">>
\* random.choice(['submit', 'top', 'rank', 'rank'])
OperationChoices == <<"submit", "top", "rank", "rank">>
\* random.randint(1, 1000000): the two ends of the range
UserIds == {1, 1000000}
\* random.randint(100, 10000): the two ends of the range
Scores == {100, 10000}
\* get_top_players takes no user id
NoUser == 0
\* random.uniform(0.5, 1.5) seconds, in ticks: a <= N <= b, both ends included
LoadSleepTicks == 1..(3 * TicksPerSecond) \div 2
\* random.uniform(0.5, 2) seconds, in ticks, both ends included
ContSleepTicks == 1..(2 * TicksPerSecond)

\* ------------------------------------------------------------ HTTP outcomes
\* What requests.post / requests.get can do: raise (exc # "none") or return a
\* response with a status code and a body.  Bodies: "full" is a JSON object
\* with the fields the issuers read, "empty" is the JSON object {}, "list"
\* is JSON but no object (the array []), "garbage" is not JSON.
NoResponse == [exc |-> "none", status |-> 0, body |-> "none"]
Response(status, body) == [exc |-> "none", status |-> status, body |-> body]
Failure(cls) == [exc |-> cls, status |-> 0, body |-> "none"]
HttpOutcomes ==
    { Response(StatusOK, "full"), Response(StatusOK, "empty"),
      Response(StatusOK, "garbage"), Response(500, "garbage"),
      Failure("Timeout"), Failure("ConnectionError") }
\* The outcomes the bounded-duration runs are explored with: one of each way
\* an issuer can go (200 decoded, 200 not decodable, non-200, no response).
LoadOutcomes ==
    { Response(StatusOK, "full"), Response(StatusOK, "garbage"),
      Response(500, "garbage"), Failure("Timeout") }
HealthyOutcomes == { Response(StatusOK, "full") }
FlakyOutcomes == { Response(StatusOK, "full"), Failure("Timeout") }
\* HttpOutcomes and a 200 whose JSON body is no object
AllOutcomes == HttpOutcomes \cup { Response(StatusOK, "list") }

\* ------------------------------------------------------------------ strings
\* f"{elapsed:.2f}" of a whole number of milliseconds
Fmt2(ms) == <<ToString(ms), ".00">>
Contains(text, part) == \E i \in 1..Len(text) : text[i] = part

\* Outcome of a Python block: a returned value, or an exception of class cls.
Return(text) == [raised |-> "none", value |-> text]
Raise(cls) == [raised |-> cls, value |-> <<cls>>]

\* response.json(): raises on a body that is not JSON
JsonRaises(body) == body = "garbage"
\* data.get(...): a decoded body that is no dict has no get
GetRaises(body) == body = "list"
\* data.get('source', 'unknown')
SourceOf(body) == IF body = "full" THEN "cache" ELSE "unknown"
\* data.get('data', {}).get('rank', 'N/A')
RankOf(body) == IF body = "full" THEN "1" ELSE "N/A"

\* ------------------------------------------------------------------ issuers
\* The exception classes that are no subclass of Exception: BaseException
\* itself and the classes that derive from it directly.  Builtin and requests
\* classes go by their bare name, others by module and name.  Every other
\* class (Timeout, ConnectionError, JSONDecodeError, ValueError,
\* AttributeError, concurrent.futures.CancelledError, ...) is an Exception.
NotExceptionSubclasses ==
    {"BaseException", "BaseExceptionGroup", "KeyboardInterrupt", "SystemExit",
     "GeneratorExit", "asyncio.CancelledError"}
\* as if the handler read `except requests.ConnectionError`
CaughtOnlyConnectionError(cls) == cls = "ConnectionError"
\* `except Exception as e`: catches every class that derives from Exception
CaughtByExcept(cls) == cls \notin NotExceptionSubclasses

\* try: body / except Exception as e: return f"{prefix}{str(e)}"
TryExcept(prefix, out) ==
    IF out.raised = "none" THEN out
    ELSE IF CaughtByExcept(out.raised) THEN Return(<<prefix, out.raised>>)
    ELSE out

\* as if the append sat in a `finally:` and ran on every path
ReachesAppendAlways(o) == TRUE
\* as if the append sat under `if response.status_code == 200:`
ReachesAppendOnSuccess(o) == o.exc = "none" /\ o.status = StatusOK
\* Whether control reaches `request_times[...].append(elapsed)`: the call to
\* requests returned a response instead of raising.
ReachesAppend(o) == o.exc = "none"

\* An issuer, as a function of its arguments, the score it drew, the outcome
\* o of its HTTP call and the elapsed time it measured: the samples it
\* appends to its operation's list and the way it ends (out).
submit_score(user_id, score, o, elapsed) ==
    LET body ==
          IF o.exc # "none" THEN Raise(o.exc)
          ELSE IF o.status = StatusOK
          THEN Return(<<"Score submitted for user ", ToString(user_id), ": ",
                        ToString(score), " points (">> \o Fmt2(elapsed) \o <<"ms)">>)
          ELSE Return(<<"Error submitting score for user ", ToString(user_id),
                        ": ", ToString(o.status)>>)
    IN [samples |-> IF ReachesAppend(o) THEN <<elapsed>> ELSE <<>>,
        out |-> TryExcept("Exception submitting score: ", body)]

get_top_players(o, elapsed) ==
    LET body ==
          IF o.exc # "none" THEN Raise(o.exc)
          ELSE IF o.status = StatusOK
          THEN IF JsonRaises(o.body) THEN Raise("JSONDecodeError")
               ELSE IF GetRaises(o.body) THEN Raise("AttributeError")
               ELSE Return(<<"Top players fetched from ", SourceOf(o.body), " (">>
                           \o Fmt2(elapsed) \o <<"ms)">>)
          ELSE Return(<<"Error fetching top players: ", ToString(o.status)>>)
    IN [samples |-> IF ReachesAppend(o) THEN <<elapsed>> ELSE <<>>,
        out |-> TryExcept("Exception fetching top players: ", body)]

get_user_rank(user_id, o, elapsed) ==
    LET body ==
          IF o.exc # "none" THEN Raise(o.exc)
          ELSE IF o.status = StatusOK
          THEN IF JsonRaises(o.body) THEN Raise("JSONDecodeError")
               ELSE IF GetRaises(o.body) THEN Raise("AttributeError")
               ELSE Return(<<"User ", ToString(user_id), " rank: ", RankOf(o.body),
                             " (">> \o Fmt2(elapsed) \o <<"ms)">>)
          ELSE Return(<<"Error fetching rank for user ", ToString(user_id), ": ",
                        ToString(o.status)>>)
    IN [samples |-> IF ReachesAppend(o) THEN <<elapsed>> ELSE <<>>,
        out |-> TryExcept("Exception fetching rank: ", body)]

\* The function a task runs: executor.submit(submit_score, user_id), ...
Issuer(op, user_id, score, o, elapsed) ==
    CASE op = "submit" -> submit_score(user_id, score, o, elapsed)
      [] op = "top" -> get_top_players(o, elapsed)
      [] op = "rank" -> get_user_rank(user_id, o, elapsed)

\* as if the code read `request_times[op] = [elapsed]`
ListAssign(list, x) == <<x>>
\* list.append(x): one atomic step of the interpreter
ListAppend(list, x) == Append(list, x)

\* ----------------------------------------------------- statistics reporter
RECURSIVE SeqMin(_)
SeqMin(s) == IF Len(s) = 1 THEN s[1]
             ELSE LET m == SeqMin(Tail(s)) IN IF s[1] < m THEN s[1] ELSE m
RECURSIVE SeqMax(_)
SeqMax(s) == IF Len(s) = 1 THEN s[1]
             ELSE LET m == SeqMax(Tail(s)) IN IF s[1] > m THEN s[1] ELSE m

\* as if the `if times:` test were missing and empty lists were listed too
ListedAlways(times) == TRUE
\* `if times:`
Listed(times) == times # <<>>

\* The block print_statistics writes: one section per operation whose list
\* is listed, in dict order.  Mean, median and standard deviation are real
\* numbers and are left out; stdev says whether the deviation line is there.
print_statistics(times) ==
    LET shown == SelectSeq(OpOrder, LAMBDA op : Listed(times[op]))
    IN [i \in 1..Len(shown) |->
          [operation |-> shown[i],
           total |-> Len(times[shown[i]]),
           min |-> IF times[shown[i]] = <<>> THEN 0 ELSE SeqMin(times[shown[i]]),
           max |-> IF times[shown[i]] = <<>> THEN 0 ELSE SeqMax(times[shown[i]]),
           stdev |-> Len(times[shown[i]]) > 1]]

\* -------------------------------------------------------------------- state
VARIABLES
    mode,              \* "load" (choice 2/3) or "continuous" (choice 1, default)
    max_workers,       \* run_load_test's parameter
    duration_seconds,  \* run_load_test's parameter, in ticks
    endpoint,          \* the server: [outcomes, latency]
    now,               \* time.time(), in ticks
    pc,                \* the driver's position
    start_time,        \* run_load_test's start_time
    request_count,     \* run_load_test's request_count
    futures,           \* run_load_test's futures: ids of the batch's tasks
    tasks,             \* the issuer calls alive: id -> call frame
    consumed,          \* futures as_completed has yielded in this batch
    request_times,     \* the module's request_times
    iteration,         \* run_continuous_simulation's iteration
    user_id,           \* run_continuous_simulation's user_id
    summary,           \* stdout: the summaries run_load_test printed
    reports,           \* stdout: the blocks print_statistics printed
    \* history, observed but never read by the program:
    batches,           \* batches started, i.e. bodies of the while loop entered
    batch_base,        \* request_times as it was when the batch started
    completed,         \* results as_completed has yielded, over all batches
    printed_result,    \* whether the last yielded result was printed
    calls,             \* per operation, requests answered / failed, and calls
                       \* cut off between the answer and the append
    iter_log           \* results printed in the current iteration

vars == <<mode, max_workers, duration_seconds, endpoint, now, pc, start_time,
          request_count, futures, tasks, consumed, request_times, iteration,
          user_id, summary, reports, batches, batch_base, completed,
          printed_result, calls, iter_log>>

Range(f) == {f[i] : i \in DOMAIN f}
Resolved(t) == t.st \in {"done", "raised"}
Unresolved == {id \in DOMAIN tasks : ~Resolved(tasks[id])}
Running == {id \in DOMAIN tasks :
              tasks[id].st \in {"waiting", "measured", "appended"}}

\* The frame of a call not yet started.
NewTask(op, uid) ==
    [op |-> op, user_id |-> uid, st |-> "pending", score |-> 0, start |-> 0,
     resp |-> NoResponse, elapsed |-> 0, ret |-> <<>>]

InitCommon ==
    /\ now = 0
    /\ pc = "begin"
    /\ start_time = 0
    /\ request_count = 0
    /\ futures = <<>>
    /\ tasks = <<>>
    /\ consumed = {}
    /\ request_times = [op \in Ops |-> <<>>]
    /\ iteration = 0
    /\ user_id = NoUser
    /\ summary = <<>>
    /\ reports = <<>>
    /\ batches = 0
    /\ batch_base = [op \in Ops |-> <<>>]
    /\ completed = 0
    /\ printed_result = FALSE
    /\ calls = [op \in Ops |-> [answered |-> 0, failed |-> 0, cut |-> 0]]
    /\ iter_log = <<>>

\* if choice == "2" / "3": run_load_test(duration_seconds=..., max_workers=...)
InitLoad ==
    /\ mode = "load"
    /\ max_workers = MaxWorkers
    /\ duration_seconds = Duration
    /\ endpoint = [outcomes |-> LoadOutcomes, latency |-> MaxLatency]
    /\ InitCommon

\* if choice == "1" / else: run_continuous_simulation()
InitCont ==
    /\ mode = "continuous"
    /\ max_workers = 1
    /\ duration_seconds = 0
    /\ endpoint = [outcomes |-> AllOutcomes, latency |-> MaxLatency]
    /\ InitCommon

\* run_load_test for longer, against an endpoint that always answers 200 at once
InitLong ==
    /\ mode = "load"
    /\ max_workers = MaxWorkers
    /\ duration_seconds = LongDuration
    /\ endpoint = [outcomes |-> HealthyOutcomes, latency |-> 0]
    /\ InitCommon

\* run_load_test against an endpoint that answers 200 or times out
InitFair ==
    /\ mode = "load"
    /\ max_workers = MaxWorkers
    /\ duration_seconds = Duration
    /\ endpoint = [outcomes |-> FlakyOutcomes, latency |-> MaxLatency]
    /\ InitCommon

Init == InitLoad \/ InitCont

\* ------------------------------------------------------------ issuer steps
\* What an issuer call does to its operation's list: the samples it appends.
Record(id, o, elapsed) ==
    LET t == tasks[id]
        r == Issuer(t.op, t.user_id, t.score, o, elapsed)
    IN request_times' =
          [request_times EXCEPT ![t.op] =
              IF r.samples = <<>> THEN @ ELSE ListAppend(@, r.samples[1])]

\* How an issuer call ends: its return value, or the exception it lets through.
Conclude(id, o, elapsed) ==
    LET t == tasks[id]
        r == Issuer(t.op, t.user_id, t.score, o, elapsed)
    IN tasks' = [tasks EXCEPT ![id] =
                   [@ EXCEPT !.st = IF r.out.raised = "none" THEN "done" ELSE "raised",
                             !.resp = o, !.elapsed = elapsed, !.ret = r.out.value]]

\* (time.time() - start_time) * 1000
ElapsedMs(start, end) == ((end - start) * MsPerSecond) \div TicksPerSecond

\* A thread starts the call: start_time = time.time(), the score is drawn and
\* the request is sent.  The pool runs at most max_workers calls at a time,
\* its threads reaching this point in any order; the continuous driver calls
\* directly.
IssuerStart(id) ==
    /\ tasks[id].st = "pending"
    /\ mode = "load" => Cardinality(Running) < max_workers
    /\ \E score \in (IF tasks[id].op = "submit" THEN Scores ELSE {0}) :
         tasks' = [tasks EXCEPT ![id] =
                     [@ EXCEPT !.st = "waiting", !.start = now, !.score = score]]
    /\ UNCHANGED <<mode, max_workers, duration_seconds, endpoint, now, pc,
                   start_time, request_count, futures, consumed, request_times,
                   iteration, user_id, summary, reports, batches, batch_base,
                   completed, printed_result, calls, iter_log>>

\* requests.post / requests.get comes back after d ticks: with a response,
\* and elapsed is measured, or with an exception, which ends the call in the
\* except clause.
IssuerReceive(id) ==
    /\ tasks[id].st = "waiting"
    /\ \E o \in endpoint.outcomes, d \in 0..endpoint.latency :
         /\ now' = now + d
         /\ IF o.exc = "none"
            THEN /\ tasks' = [tasks EXCEPT ![id] =
                               [@ EXCEPT !.st = "measured", !.resp = o,
                                         !.elapsed =
                                           ElapsedMs(tasks[id].start, now + d)]]
                 /\ calls' = [calls EXCEPT ![tasks[id].op].answered = @ + 1]
                 /\ UNCHANGED request_times
            ELSE /\ Record(id, o, ElapsedMs(tasks[id].start, now + d))
                 /\ Conclude(id, o, ElapsedMs(tasks[id].start, now + d))
                 /\ calls' = [calls EXCEPT ![tasks[id].op].failed = @ + 1]
    /\ UNCHANGED <<mode, max_workers, duration_seconds, endpoint, pc, start_time,
                   request_count, futures, consumed, iteration, user_id, summary,
                   reports, batches, batch_base, completed, printed_result,
                   iter_log>>

\* request_times[op].append(elapsed)
IssuerAppend(id) ==
    /\ tasks[id].st = "measured"
    /\ Record(id, tasks[id].resp, tasks[id].elapsed)
    /\ tasks' = [tasks EXCEPT ![id].st = "appended"]
    /\ UNCHANGED <<mode, max_workers, duration_seconds, endpoint, now, pc,
                   start_time, request_count, futures, consumed, iteration,
                   user_id, summary, reports, batches, batch_base, completed,
                   printed_result, calls, iter_log>>

\* The rest of the try block after the append: the status test, the decoding
\* of the body, and the return (through the except clause if that raised).
IssuerReturn(id) ==
    /\ tasks[id].st = "appended"
    /\ Conclude(id, tasks[id].resp, tasks[id].elapsed)
    /\ UNCHANGED <<mode, max_workers, duration_seconds, endpoint, now, pc,
                   start_time, request_count, futures, consumed, request_times,
                   iteration, user_id, summary, reports, batches, batch_base,
                   completed, printed_result, calls, iter_log>>

IssuerStep == \E id \in DOMAIN tasks :
                 \/ IssuerStart(id) \/ IssuerReceive(id)
                 \/ IssuerAppend(id) \/ IssuerReturn(id)

\* -------------------------------------------------- bounded-duration driver
\* as if range(max_workers + 1)
BatchFullOneMore(n) == n = max_workers + 1
\* for _ in range(max_workers): the batch holds max_workers tasks
BatchFull(n) == n = max_workers

\* as if the loop left as_completed at the first result
AwaitDoneAtFirst(seen, batch) == seen # {}
\* as_completed(futures) is exhausted: every future has been yielded
AwaitDone(seen, batch) == seen = Range(batch)

\* as if the test read `<=`
BeforeDeadlineInclusive(t) == t - start_time <= duration_seconds
\* while time.time() - start_time < duration_seconds
BeforeDeadline(t) == t - start_time < duration_seconds

\* if request_count % 10 == 0
PrintsResult(count) == count % PrintEvery = 0

\* start_time = time.time(); request_count = 0; the pool is created
LoadBegin ==
    /\ mode = "load" /\ pc = "begin"
    /\ start_time' = now
    /\ request_count' = 0
    /\ pc' = "check"
    /\ UNCHANGED <<mode, max_workers, duration_seconds, endpoint, now, futures,
                   tasks, consumed, request_times, iteration, user_id, summary,
                   reports, batches, batch_base, completed, printed_result,
                   calls, iter_log>>

\* The while test; entering the body sets futures = [].  Frames of resolved
\* calls are unreachable from then on and are dropped.
LoadCheck ==
    /\ mode = "load" /\ pc = "check"
    /\ IF BeforeDeadline(now)
       THEN /\ pc' = "dispatch"
            /\ futures' = <<>>
            /\ consumed' = {}
            /\ tasks' = [id \in Unresolved |-> tasks[id]]
            /\ batches' = batches + 1
            /\ batch_base' = request_times
       ELSE /\ pc' = "summary"
            /\ UNCHANGED <<futures, consumed, tasks, batches, batch_base>>
    /\ UNCHANGED <<mode, max_workers, duration_seconds, endpoint, now, start_time,
                   request_count, request_times, iteration, user_id, summary,
                   reports, completed, printed_result, calls, iter_log>>

\* One turn of `for _ in range(max_workers)`: draw user_id and operation,
\* executor.submit(...), request_count += 1.
LoadDispatch ==
    /\ mode = "load" /\ pc = "dispatch"
    /\ \E uid \in UserIds, k \in DOMAIN OperationChoices :
         LET op == OperationChoices[k]
             id == request_count + 1
         IN /\ tasks' = tasks @@
                  (id :> NewTask(op, IF op = "top" THEN NoUser ELSE uid))
            /\ futures' = Append(futures, id)
    /\ request_count' = request_count + 1
    /\ pc' = IF BatchFull(Len(futures) + 1) THEN "await" ELSE "dispatch"
    /\ UNCHANGED <<mode, max_workers, duration_seconds, endpoint, now, start_time,
                   consumed, request_times, iteration, user_id, summary, reports,
                   batches, batch_base, completed, printed_result, calls,
                   iter_log>>

\* One turn of `for future in as_completed(futures)`: a resolved future is
\* yielded, future.result() returns its value or re-raises its exception,
\* and the value is printed or not.
LoadAwait ==
    /\ mode = "load" /\ pc = "await"
    /\ \E id \in Range(futures) \ consumed :
         /\ id \in DOMAIN tasks /\ Resolved(tasks[id])
         /\ consumed' = consumed \cup {id}
         /\ completed' = completed + 1
         /\ IF tasks[id].st = "raised"
            THEN /\ pc' = "crashed"
                 /\ UNCHANGED printed_result
            ELSE /\ printed_result' = PrintsResult(request_count)
                 /\ pc' = IF AwaitDone(consumed \cup {id}, futures)
                          THEN "sleep" ELSE "await"
    /\ UNCHANGED <<mode, max_workers, duration_seconds, endpoint, now, start_time,
                   request_count, futures, tasks, request_times, iteration,
                   user_id, summary, reports, batches, batch_base, calls,
                   iter_log>>

\* time.sleep(random.uniform(0.5, 1.5))
LoadSleep ==
    /\ mode = "load" /\ pc = "sleep"
    /\ \E d \in LoadSleepTicks : now' = now + d
    /\ pc' = "check"
    /\ UNCHANGED <<mode, max_workers, duration_seconds, endpoint, start_time,
                   request_count, futures, tasks, consumed, request_times,
                   iteration, user_id, summary, reports, batches, batch_base,
                   completed, printed_result, calls, iter_log>>

\* Leaving the `with` block shuts the pool down, which waits for every call;
\* then the summary lines are printed.
LoadSummary ==
    /\ mode = "load" /\ pc = "summary"
    /\ Unresolved = {}
    /\ summary' = Append(summary, [requests |-> request_count,
                                   ticks |-> now - start_time])
    /\ pc' = "stats"
    /\ UNCHANGED <<mode, max_workers, duration_seconds, endpoint, now, start_time,
                   request_count, futures, tasks, consumed, request_times,
                   iteration, user_id, reports, batches, batch_base, completed,
                   printed_result, calls, iter_log>>

\* print_statistics()
LoadStats ==
    /\ mode = "load" /\ pc = "stats"
    /\ reports' = Append(reports, print_statistics(request_times))
    /\ pc' = "done"
    /\ UNCHANGED <<mode, max_workers, duration_seconds, endpoint, now, start_time,
                   request_count, futures, tasks, consumed, request_times,
                   iteration, user_id, summary, batches, batch_base, completed,
                   printed_result, calls, iter_log>>

LoadDriver == LoadBegin \/ LoadCheck \/ LoadDispatch \/ LoadAwait \/ LoadSleep
              \/ LoadSummary \/ LoadStats

\* -------------------------------------------------------- continuous driver
\* The calls of one iteration, in program order; get_top_players gets no id.
ContOp(p) == CASE p = "c_submit" -> "submit" [] p = "c_top" -> "top"
               [] p = "c_rank" -> "rank"
ContArg(p, uid) == IF p = "c_top" THEN NoUser ELSE uid

\* as if the sleep came before the rank lookup
ContAfterSleepEarly(p) == CASE p = "c_submit" -> "c_top" [] p = "c_top" -> "c_sleep"
                            [] p = "c_rank" -> "c_sleep"
\* print(submit_score(..)); print(get_top_players()); print(get_user_rank(..));
\* time.sleep(..)
ContAfter(p) == CASE p = "c_submit" -> "c_top" [] p = "c_top" -> "c_rank"
                  [] p = "c_rank" -> "c_sleep"

ContCalling == pc \in {"c_submit", "c_top", "c_rank"}
ContInLoop == pc \in {"c_iter", "c_submit", "c_top", "c_rank", "c_sleep"}

\* the banner; iteration = 0
ContBegin ==
    /\ mode = "continuous" /\ pc = "begin"
    /\ iteration' = 0
    /\ pc' = "c_iter"
    /\ UNCHANGED <<mode, max_workers, duration_seconds, endpoint, now, start_time,
                   request_count, futures, tasks, consumed, request_times,
                   user_id, summary, reports, batches, batch_base, completed,
                   printed_result, calls, iter_log>>

\* iteration += 1; user_id = random.randint(1, 1000000); the header line
ContIterate ==
    /\ mode = "continuous" /\ pc = "c_iter"
    /\ iteration < MaxIter
    /\ iteration' = iteration + 1
    /\ \E uid \in UserIds : user_id' = uid
    /\ iter_log' = <<>>
    /\ pc' = "c_submit"
    /\ UNCHANGED <<mode, max_workers, duration_seconds, endpoint, now, start_time,
                   request_count, futures, tasks, consumed, request_times,
                   summary, reports, batches, batch_base, completed,
                   printed_result, calls>>

\* The driver calls the issuer on its own thread.
ContCall ==
    /\ mode = "continuous" /\ ContCalling
    /\ tasks = <<>>
    /\ tasks' = (1 :> NewTask(ContOp(pc), ContArg(pc, user_id)))
    /\ UNCHANGED <<mode, max_workers, duration_seconds, endpoint, now, pc,
                   start_time, request_count, futures, consumed, request_times,
                   iteration, user_id, summary, reports, batches, batch_base,
                   completed, printed_result, calls, iter_log>>

\* The issuer returns and print(...) writes its value; an exception it let
\* through would leave the loop, no handler there catching it.
ContReturn ==
    /\ mode = "continuous" /\ ContCalling
    /\ tasks # <<>> /\ Resolved(tasks[1])
    /\ IF tasks[1].st = "raised"
       THEN /\ pc' = "crashed"
            /\ UNCHANGED iter_log
       ELSE /\ iter_log' = Append(iter_log, [op |-> tasks[1].op,
                                             user_id |-> tasks[1].user_id,
                                             text |-> tasks[1].ret])
            /\ pc' = ContAfter(pc)
    /\ tasks' = <<>>
    /\ UNCHANGED <<mode, max_workers, duration_seconds, endpoint, now, start_time,
                   request_count, futures, consumed, request_times, iteration,
                   user_id, summary, reports, batches, batch_base, completed,
                   printed_result, calls>>

\* time.sleep(random.uniform(0.5, 2))
ContSleep ==
    /\ mode = "continuous" /\ pc = "c_sleep"
    /\ \E d \in ContSleepTicks : now' = now + d
    /\ pc' = "c_iter"
    /\ UNCHANGED <<mode, max_workers, duration_seconds, endpoint, start_time,
                   request_count, futures, tasks, consumed, request_times,
                   iteration, user_id, summary, reports, batches, batch_base,
                   completed, printed_result, calls, iter_log>>

\* Ctrl+C: KeyboardInterrupt is raised wherever the main thread is, inside an
\* issuer too, at any of its points (it is no Exception, so `except
\* Exception` lets it pass), and the handler prints the stop notice and the
\* statistics.
KeyboardInterrupt ==
    /\ mode = "continuous" /\ ContInLoop
    /\ tasks' = <<>>
    /\ reports' = Append(reports, print_statistics(request_times))
    /\ pc' = "done"
    /\ calls' = IF tasks # <<>> /\ tasks[1].st = "measured"
                THEN [calls EXCEPT ![tasks[1].op].cut = @ + 1]
                ELSE calls
    /\ UNCHANGED <<mode, max_workers, duration_seconds, endpoint, now, start_time,
                   request_count, futures, consumed, request_times, iteration,
                   user_id, summary, batches, batch_base, completed,
                   printed_result, iter_log>>

ContDriver == ContBegin \/ ContIterate \/ ContCall \/ ContReturn \/ ContSleep
              \/ KeyboardInterrupt

\* ------------------------------------------------------------ specifications
NextLoad == LoadDriver \/ (mode = "load" /\ IssuerStep)
NextCont == ContDriver \/ (mode = "continuous" /\ IssuerStep)
Next == LoadDriver \/ ContDriver \/ IssuerStep

\* Both modes, any endpoint behaviour.
Spec == Init /\ [][Next]_vars
\* Continuous mode alone.
SpecCont == InitCont /\ [][NextCont]_vars
\* Bounded mode, long run against a healthy endpoint.
SpecLong == InitLong /\ [][NextLoad]_vars
\* Bounded mode with the scheduling the runtime gives: the driver thread and
\* the pool's threads keep running, and every request ends (timeout=5).
FairLoad == InitFair /\ [][NextLoad]_vars
            /\ WF_vars(LoadDriver) /\ WF_vars(IssuerStep)

\* ------------------------------------------------------------------- claims
IsPrefix(s, t) == Len(s) <= Len(t) /\ \A i \in 1..Len(s) : s[i] = t[i]
\* Calls that have gone through the append: past it and not yet returned, or
\* ended after their request was answered.
ThroughAppend ==
    {id \in DOMAIN tasks :
        \/ tasks[id].st = "appended"
        \/ Resolved(tasks[id]) /\ tasks[id].resp.exc = "none"}
\* a non-empty sequence of string parts
IsStatusString(text) == Len(text) >= 1

\* C1: whatever the HTTP call does (200, non-200, timeout, connection refusal,
\* a body that is not JSON), the issuer ends by returning a status string:
\* no call ends by raising, and neither driver loop is left by an error that
\* an issuer raised.
C1_IssuersNeverRaise ==
    /\ pc # "crashed"
    /\ \A id \in DOMAIN tasks :
         /\ tasks[id].st # "raised"
         /\ tasks[id].st = "done" => IsStatusString(tasks[id].ret)

\* One iteration of the continuous loop in which submit timed out, top got a
\* 200 whose body is not JSON and rank got a 500: three status strings printed.
C1_Witness ==
    /\ mode = "continuous" /\ pc = "c_sleep" /\ Len(iter_log) = 3
    /\ iter_log[1].text = <<"Exception submitting score: ", "Timeout">>
    /\ iter_log[2].text = <<"Exception fetching top players: ", "JSONDecodeError">>
    /\ Contains(iter_log[3].text, "500")

\* Calls of an operation whose request has been answered and that have not
\* got to the append yet.
BeforeAppend(op) ==
    {id \in DOMAIN tasks : tasks[id].op = op /\ tasks[id].st = "measured"}
\* Calls of an operation that have gone through the append.
Sampled(op) == calls[op].answered - calls[op].cut - Cardinality(BeforeAppend(op))

\* C2 as stated: every issuer call whose request has come back, with a
\* response or with an exception, appends a sample, so each operation's list
\* is as long as the number of those calls (less the ones that are, or were
\* cut off, between the answer and the append).
C2_EveryCallSampled ==
    \A op \in Ops :
        Len(request_times[op]) = Sampled(op) + calls[op].failed

\* C2 as amended: a call appends a sample exactly when its request got a
\* response (of any status, decodable or not) and the call went on to the
\* append, whether or not it has returned since; a call whose request raised
\* (timeout, connection refusal) appends none.  So each operation's list is as
\* long as the number of its answered calls less the ones that are, or were
\* cut off by Ctrl+C, between the answer and the append.
C2_AnsweredCallsSampled ==
    \A op \in Ops : Len(request_times[op]) = Sampled(op)

\* An operation with an answered call and a failed call behind it, and a
\* third call that has appended its sample and has not returned yet.
C2_Witness ==
    \E op \in Ops : /\ calls[op].answered >= 2 /\ calls[op].failed >= 1
                    /\ Len(request_times[op]) = calls[op].answered
                    /\ \E id \in DOMAIN tasks :
                          tasks[id].op = op /\ tasks[id].st = "appended"

\* C3: an issuer whose request got a non-200 status appends exactly one sample
\* (the elapsed time it measured) to its own operation's list, leaving the
\* other operations' lists as they were, and then returns a string containing
\* the status code, changing no list on the way.
C3_Non200 ==
    [][\A id \in DOMAIN tasks :
         (/\ tasks[id].resp.status # StatusOK
          /\ id \in DOMAIN tasks')
         => /\ (tasks[id].st = "measured" /\ tasks'[id].st # "measured")
                => /\ tasks'[id].st = "appended"
                   /\ request_times'[tasks[id].op] =
                         Append(request_times[tasks[id].op], tasks[id].elapsed)
                   /\ \A op \in Ops \ {tasks[id].op} :
                         request_times'[op] = request_times[op]
            /\ (tasks[id].st = "appended" /\ tasks'[id].st # "appended")
                => /\ tasks'[id].st = "done"
                   /\ Contains(tasks'[id].ret, ToString(tasks[id].resp.status))
                   /\ request_times' = request_times]_vars

\* A rank lookup that ended on a 500, with its sample recorded.
C3_Witness ==
    \E id \in DOMAIN tasks :
        /\ tasks[id].st = "done" /\ tasks[id].op = "rank"
        /\ tasks[id].resp.status = 500
        /\ Contains(tasks[id].ret, "500")
        /\ Len(request_times["rank"]) >= 1

\* C4 as stated: in bounded mode the k-th result yielded overall is printed
\* exactly when k is a multiple of 10.
C4_EveryTenthCompleted ==
    (mode = "load" /\ completed >= 1)
        => (printed_result <=> completed % PrintEvery = 0)

\* C5: in bounded mode the batch is a fork-join barrier: results are awaited
\* only once max_workers tasks have been dispatched, every call not yet
\* resolved belongs to the current batch, none is unresolved while the driver
\* sleeps, tests the deadline or reports, and so at most max_workers requests
\* are in flight.
C5_ForkJoinBarrier ==
    mode = "load" =>
        /\ Cardinality(Unresolved) <= max_workers
        /\ Unresolved \subseteq Range(futures)
        /\ (pc = "await" \/ consumed # {}) => Len(futures) = max_workers
        /\ pc = "dispatch" => (consumed = {} /\ Len(futures) < max_workers)
        /\ pc \in {"sleep", "check", "summary", "stats", "done"} => Unresolved = {}

\* The second batch, fully dispatched, every request of it in flight.
C5_Witness ==
    /\ mode = "load" /\ pc = "await" /\ batches = 2 /\ consumed = {}
    /\ Cardinality(Running) = max_workers

\* C6: in bounded mode, at every point of every interleaving of the batch's
\* calls, each operation's list is the list the batch started with followed by
\* one sample per call of the batch, of that operation, that has gone through
\* the append: nothing recorded before is removed or overwritten, and no
\* append is lost.
C6_NoLostAppend ==
    mode = "load" =>
        \A op \in Ops :
            /\ IsPrefix(batch_base[op], request_times[op])
            /\ Len(request_times[op]) = Len(batch_base[op]) +
                 Cardinality({id \in Range(futures) \cap ThroughAppend :
                                 tasks[id].op = op})

\* A second batch whose calls both appended to a list that already held a
\* sample, one of them yielded by as_completed while the other, its sample
\* in the list, has not returned yet.
C6_Witness ==
    /\ mode = "load" /\ pc = "await" /\ batches = 2 /\ consumed # {}
    /\ \E op \in Ops : /\ Len(batch_base[op]) >= 1
                       /\ Len(request_times[op]) = Len(batch_base[op]) + 2
                       /\ \E id \in Range(futures) :
                             tasks[id].op = op /\ tasks[id].st = "appended"

\* C7: in bounded mode request_count is batches * max_workers, a multiple of
\* max_workers, whenever the driver is not inside a batch's dispatch loop, and
\* that is the total the summary prints; inside the loop it is short of that by
\* the tasks of the batch still to dispatch.
C7_CountMultipleOfWorkers ==
    mode = "load" =>
        /\ pc # "dispatch" => /\ request_count = batches * max_workers
                              /\ request_count % max_workers = 0
        /\ pc = "dispatch" =>
              request_count = (batches - 1) * max_workers + Len(futures)
        /\ \A i \in DOMAIN summary :
              summary[i].requests = batches * max_workers

\* The summary printed after two batches.
C7_Witness ==
    /\ mode = "load" /\ pc = "done" /\ batches = 2
    /\ summary[1].requests = 2 * max_workers

\* C8: bounded mode ends at the deadline.  No batch is started once the
\* elapsed time has reached duration_seconds; a batch that was started runs
\* until all its results have been yielded; the driver ends; and when it has
\* ended, the summary and the statistics block have been printed exactly once,
\* no call is unresolved, and the deadline has been overrun by no more than
\* the requests of one batch and one sleep.
C8_EndsAtDeadline ==
    /\ [][(pc # "begin" /\ now - start_time >= duration_seconds)
             => batches' = batches]_vars
    /\ [](pc = "done" =>
            /\ Len(summary) = 1 /\ Len(reports) = 1
            /\ Unresolved = {}
            /\ now - start_time >= duration_seconds
            /\ \E d \in LoadSleepTicks :
                  now - start_time <
                      duration_seconds + max_workers * endpoint.latency + d)
    /\ [](pc \in {"summary", "stats"} => Len(reports) = 0)
    /\ (pc = "dispatch") ~> (pc = "sleep")
    /\ <>(pc = "done")

\* The driver has ended after two batches, past the deadline.
C8_Witness ==
    /\ pc = "done" /\ batches = 2
    /\ now - start_time > duration_seconds

\* Iterations of the continuous loop that ran through their three calls.
CompletedIterations ==
    IF Len(iter_log) = Len(OpOrder) THEN iteration
    ELSE IF iteration = 0 THEN 0 ELSE iteration - 1
HasSection(report, op) == \E i \in DOMAIN report : report[i].operation = op
SectionTotal(report, op) ==
    LET i == CHOOSE i \in DOMAIN report : report[i].operation = op
    IN report[i].total

\* C9 as stated: an interrupt after at least one completed iteration prints
\* one statistics block with the submit, top and rank sections, each with a
\* count of at least 1.
C9_AllSectionsListed ==
    (mode = "continuous" /\ pc = "done" /\ CompletedIterations >= 1)
        => /\ Len(reports) = 1
           /\ \A op \in Ops : /\ HasSection(reports[1], op)
                              /\ SectionTotal(reports[1], op) >= 1

\* C9 as amended: the interrupt is caught and one statistics block is printed
\* before the function ends; the block has a section for exactly the
\* operations of which at least one call went through the append (its request
\* was answered and Ctrl+C did not arrive between the answer and the append),
\* with the number of those calls as its count, whether or not the last of
\* them returned.  So all three sections are there when no request failed
\* before a response, and none when all did.
C9_AnsweredSectionsListed ==
    (mode = "continuous" /\ pc = "done" /\ CompletedIterations >= 1)
        => /\ Len(reports) = 1
           /\ \A op \in Ops :
                /\ HasSection(reports[1], op) <=> Sampled(op) >= 1
                /\ HasSection(reports[1], op) =>
                      SectionTotal(reports[1], op) = Sampled(op)
                /\ calls[op].failed = 0 => HasSection(reports[1], op)

\* Interrupted after a completed iteration in which every submit failed
\* before a response while top was answered.
C9_Witness ==
    /\ mode = "continuous" /\ pc = "done" /\ CompletedIterations >= 1
    /\ Len(reports) = 1
    /\ calls["submit"].answered = 0 /\ calls["submit"].failed >= 1
    /\ ~HasSection(reports[1], "submit")
    /\ HasSection(reports[1], "top")

\* The calls of one iteration and their arguments, in program order.
IterationCalls(uid) ==
    <<[op |-> "submit", user_id |-> uid], [op |-> "top", user_id |-> NoUser],
      [op |-> "rank", user_id |-> uid]>>

\* C10: continuous mode is sequential.  At most one call is alive; the calls
\* that have returned in the current iteration are submit, top, rank in that
\* order, submit and rank with the iteration's user id; a call that is alive
\* is the next one of that order; and the driver sleeps only when all three
\* have returned.
C10_Sequential ==
    (mode = "continuous" /\ pc # "begin") =>
        /\ Cardinality(DOMAIN tasks) <= 1
        /\ Len(iter_log) <= Len(OpOrder)
        /\ \A i \in DOMAIN iter_log :
              /\ iter_log[i].op = IterationCalls(user_id)[i].op
              /\ iter_log[i].user_id = IterationCalls(user_id)[i].user_id
        /\ \A id \in DOMAIN tasks :
              /\ Len(iter_log) < Len(OpOrder)
              /\ tasks[id].op = IterationCalls(user_id)[Len(iter_log) + 1].op
              /\ tasks[id].user_id =
                    IterationCalls(user_id)[Len(iter_log) + 1].user_id
        /\ pc = "c_sleep" => (Len(iter_log) = Len(OpOrder) /\ tasks = <<>>)

\* The second iteration, for the highest user id, about to sleep.
C10_Witness ==
    /\ mode = "continuous" /\ pc = "c_sleep" /\ iteration = 2
    /\ user_id = 1000000
    /\ iter_log[1].user_id = 1000000 /\ iter_log[3].user_id = 1000000
====
